---- MODULE Spec2Model ----
(***************************************************************************)
(* A state-machine model of A11YTreeViewNavigation (the tree-view          *)
(* navigation engine, src/unnamed/part_001) and of A11yAccordion (the      *)
(* disclosure toggle, src/unnamed/part_002).                               *)
(*                                                                         *)
(* The host markup is the Drupal-style menu the selectors of the code      *)
(* address: a container holding one root list  ul.menu--level-1 , every    *)
(* entry an  li.menu-item  holding one Item  a.menu__link  optionally      *)
(* followed by a nested list (its Group).  Items are numbered 1..n in      *)
(* document order; parent[i] is the Item owning the list that holds i      *)
(* (Null for a depth-1 Item).  Items at depth d carry menu__link--level-d. *)
(***************************************************************************)
EXTENDS Integers, Sequences, FiniteSets, TLC

\* ------------------------------------------------------------- bounds
MaxItems == 3         \* Items in the tree
MaxEmptyGroups == 1   \* childless Items that are still followed by a (empty) list
MaxActive == 2        \* Items carrying the is-active class

\* null / undefined of the source
Null == 0

VARIABLES
  host,        \* what the constructor is handed
  n,           \* number of Items under the root list (document order 1..n)
  parent,      \* parent[i]: the Item whose Group holds Item i, or Null
  hasGroup,    \* hasGroup[i]: Item i has a following-sibling list
  active,      \* the Items carrying class is-active
  text,        \* text[i]: textContent of Item i, a sequence of characters
  section,     \* the .book-navigation section around the container
  preset,      \* preset[i]: the aria-expanded the host markup wrote on Item i
  phase,       \* "markup" before construction; "ready", "inert", "threw" after
  treeRole,    \* role attribute of the root list
  item,        \* item[i]: the attributes the engine manages on Item i
  group,       \* group[i]: the attributes of the Group of Item i
  trigger,     \* trigger[i]: a Trigger button was appended to Item i
  listening,   \* listening[i]: the keydown listener is installed on Item i
  focus,       \* document.activeElement: Null, an Item, or NextSectionItem
  lastEvent,   \* the last operation performed and how its handler ended
  accordion    \* accordion[a]: trigger and panel of the a-th .accordion of the page

static == <<host, n, parent, hasGroup, active, text, section, preset>>
dom == <<treeRole, item, group, trigger, listening>>
vars == <<host, n, parent, hasGroup, active, text, section, preset,
          phase, treeRole, item, group, trigger, listening, focus, lastEvent,
          accordion>>

\* ------------------------------------------------------ tree structure
Items == 1..n

\* the first .menu__link--level-1 of the section following this one
NextSectionItem == n + 1

RECURSIVE AncestorsIn(_, _)
AncestorsIn(p, i) == IF p[i] = Null THEN {} ELSE {p[i]} \cup AncestorsIn(p, p[i])

\* the Items owning a Group that contains i, at any depth
Ancestors(i) == AncestorsIn(parent, i)

Depth(i) == Cardinality(Ancestors(i)) + 1

\* ':scope > li > [aria-role="tree-item"]' of the Group of i
Children(i) == {j \in Items : parent[j] = i}

SetMin(S) == CHOOSE x \in S : \A y \in S : x <= y
SetMax(S) == CHOOSE x \in S : \A y \in S : x >= y

\* treeItem.parentNode.nextElementSibling, as the Item of that entry
nextEntry(i) ==
  LET later == {j \in Items : parent[j] = parent[i] /\ j > i}
  IN  IF later = {} THEN Null ELSE SetMin(later)

\* treeItem.parentNode.previousElementSibling, as the Item of that entry
previousEntry(i) ==
  LET earlier == {j \in Items : parent[j] = parent[i] /\ j < i}
  IN  IF earlier = {} THEN Null ELSE SetMax(earlier)

firstChild(i) == IF Children(i) = {} THEN Null ELSE SetMin(Children(i))

\* ':scope > ul > li:last-of-type > [aria-role="tree-item"]'
lastChild(i) == IF Children(i) = {} THEN Null ELSE SetMax(Children(i))

\* a parent function that numbers a forest in document (pre-)order
IsDocumentOrder(p, m) ==
  /\ p[1] = Null
  /\ \A i \in 2..m : p[i] = i - 1 \/ p[i] \in AncestorsIn(p, i - 1) \/ p[i] = Null

\* ------------------------------------------------------------ strings
UpperCase == <<"A","B","C","D","E","F","G","H","I","J","K","L","M",
               "N","O","P","Q","R","S","T","U","V","W","X","Y","Z">>
LowerCase == <<"a","b","c","d","e","f","g","h","i","j","k","l","m",
               "n","o","p","q","r","s","t","u","v","w","x","y","z">>
Digits == {"0","1","2","3","4","5","6","7","8","9"}

Range(s) == {s[k] : k \in DOMAIN s}

\* \s of the regular expressions
IsSpace(c) == c \in {" ", "\t", "\n"}

\* \w of the regular expressions
IsWord(c) == c \in Range(UpperCase) \cup Range(LowerCase) \cup Digits \cup {"_"}

toLowerCase(str) ==
  [k \in DOMAIN str |->
     IF str[k] \in Range(UpperCase)
     THEN LowerCase[CHOOSE u \in DOMAIN UpperCase : UpperCase[u] = str[k]]
     ELSE str[k]]

RECURSIVE trimStart(_)
trimStart(str) ==
  IF str # <<>> /\ IsSpace(Head(str)) THEN trimStart(Tail(str)) ELSE str

RECURSIVE trimEnd(_)
trimEnd(str) ==
  IF str # <<>> /\ IsSpace(str[Len(str)])
  THEN trimEnd(SubSeq(str, 1, Len(str) - 1))
  ELSE str

trim(str) == trimEnd(trimStart(str))

\* .replace(/[^\w\s-]/g, '')
removeSpecial(str) == SelectSeq(str, LAMBDA c : IsWord(c) \/ IsSpace(c) \/ c = "-")

\* .replace(/\s+/g, '-')
RECURSIVE spacesToHyphen(_)
spacesToHyphen(str) ==
  IF str = <<>> THEN <<>>
  ELSE IF IsSpace(Head(str)) THEN <<"-">> \o spacesToHyphen(trimStart(str))
  ELSE <<Head(str)>> \o spacesToHyphen(Tail(str))

RECURSIVE dropHyphens(_)
dropHyphens(str) ==
  IF str # <<>> /\ Head(str) = "-" THEN dropHyphens(Tail(str)) ELSE str

\* .replace(/-+/g, '-')
RECURSIVE collapseHyphens(_)
collapseHyphens(str) ==
  IF str = <<>> THEN <<>>
  ELSE IF Head(str) = "-" THEN <<"-">> \o collapseHyphens(dropHyphens(str))
  ELSE <<Head(str)>> \o collapseHyphens(Tail(str))

\* .replace('open', ''): a string pattern replaces its first occurrence only
removeOpen(str) ==
  LET pat == <<"o", "p", "e", "n">>
      at  == {k \in 1..(Len(str) - Len(pat) + 1) : SubSeq(str, k, k + Len(pat) - 1) = pat}
  IN  IF at = {} THEN str
      ELSE SubSeq(str, 1, SetMin(at) - 1) \o SubSeq(str, SetMin(at) + Len(pat), Len(str))

cleanForId(str) ==
  removeOpen(collapseHyphens(spacesToHyphen(removeSpecial(trim(toLowerCase(str))))))

\* whether '#' + id is a selector document.querySelector accepts: the cleaned
\* identifier holds only [a-z0-9_-], so it is one unless it starts with a
\* digit, or with a hyphen followed by a digit or by nothing
IsSelector(id) ==
  /\ id # <<>>
  /\ Head(id) \notin Digits
  /\ Head(id) = "-" => (Len(id) > 1 /\ id[2] \notin Digits)

\* ------------------------------------------------- attribute predicates
isExpandable(it, i) == it[i].expanded # "absent"

isExpanded(it, i) == it[i].expanded = "true"


\* ---------------------------------------------------------- host markup
\* attributes of an Item / a Group the engine has not touched
MarkupItem ==
  [role |-> "absent", tabIndex |-> "absent", current |-> "absent",
   owns |-> {}, expanded |-> "absent"]

MarkupGroup == [role |-> "absent", id |-> {}]

\* what a caller may pass as the container: undefined, a primitive (number,
\* string, boolean), null, an object that is no DOM node, an element without a
\* direct child list, and a well-formed container
Hosts == {"undefined", "primitive", "null", "plainObject", "noList", "tree"}

\* typeof node
typeOf(h) ==
  CASE h = "undefined" -> "undefined"
    [] h = "primitive" -> "primitive"
    [] OTHER           -> "object"

\* the .book-navigation element around the container and what follows it:
\*   "none"  no ancestor-or-self carries the class
\*   "last"  the section has no next element sibling, or one that holds no
\*           .menu__link--level-1 (both end the optional chain without a focus)
\*   "next"  the next sibling holds one (NextSectionItem)
Sections == {"none", "last", "next"}

\* ------------------------------------------------------- construction
\* updateActiveTree: walks parentElement upward from the active Item; every
\* li.menu-item on the way contributes its first <a>, which is the entry's own
\* Item: first the active Item itself, then each ancestor Item
RECURSIVE updateActiveTreeFrom(_, _)
updateActiveTreeFrom(it, current) ==
  IF current = Null THEN it
  ELSE updateActiveTreeFrom(
         IF it[current].expanded # "absent"
         THEN [it EXCEPT ![current].expanded = "true"]
         ELSE it,
         parent[current])

\* updateActiveTree looking at the entry of the active Item and the one above
\* it only, instead of walking to the root
updateActiveTree_OneLevel(it, activeElement) ==
  LET own == IF it[activeElement].expanded # "absent"
             THEN [it EXCEPT ![activeElement].expanded = "true"]
             ELSE it
      up  == parent[activeElement]
  IN  IF up # Null /\ own[up].expanded # "absent"
      THEN [own EXCEPT ![up].expanded = "true"]
      ELSE own

\* updateActiveTree writing aria-expanded on every entry of the way up without
\* the hasAttribute test
RECURSIVE updateActiveTree_Unconditional(_, _)
updateActiveTree_Unconditional(it, current) ==
  IF current = Null THEN it
  ELSE updateActiveTree_Unconditional(
         [it EXCEPT ![current].expanded = "true"], parent[current])

updateActiveTree(it, activeElement) == updateActiveTreeFrom(it, activeElement)

\* the body of the forEach writing aria-expanded="false" only where the
\* markup wrote no aria-expanded
adjustLink_KeepPreset(it, i) ==
  LET a1 == [it EXCEPT ![i].role = "tree-item", ![i].tabIndex = "-1"]
      a2 == IF i \in active
            THEN updateActiveTree(
                   [a1 EXCEPT ![i].current = "page", ![i].tabIndex = "0"], i)
            ELSE a1
  IN  IF hasGroup[i]
      THEN [a2 EXCEPT ![i].owns = {cleanForId(text[i])},
                      ![i].expanded = IF a2[i].expanded = "absent" THEN "false"
                                      ELSE a2[i].expanded]
      ELSE a2

\* the body of the forEach of adjustLinkAttributes for one Item
adjustLink(it, i) ==
  LET a1 == [it EXCEPT ![i].role = "tree-item", ![i].tabIndex = "-1"]
      a2 == IF i \in active
            THEN updateActiveTree(
                   [a1 EXCEPT ![i].current = "page", ![i].tabIndex = "0"], i)
            ELSE a1
  IN  IF hasGroup[i]
      THEN [a2 EXCEPT ![i].owns = {cleanForId(text[i])}, ![i].expanded = "false"]
      ELSE a2

RECURSIVE adjustLinkAttributesFrom(_, _)
adjustLinkAttributesFrom(it, i) ==
  IF i > n THEN it ELSE adjustLinkAttributesFrom(adjustLink(it, i), i + 1)

adjustLinkAttributes(it) == adjustLinkAttributesFrom(it, 1)

\* subMenus are the nested lists; previousElementSibling is the owning Item
adjustSubMenuAttributes(gr) ==
  [i \in Items |->
     IF hasGroup[i]
     THEN [role |-> "group", id |-> {cleanForId(text[i])}]
     ELSE gr[i]]

\* getGroupNode: "none" when aria-owns is missing or empty or no element of the
\* document carries the id, "throws" when '#' + id is no selector, else "found"
getGroupNode(it, gr, i) ==
  IF it[i].owns = {} \/ it[i].owns = {<<>>} THEN "none"
  ELSE LET id == CHOOSE x \in it[i].owns : TRUE
       IN  IF ~IsSelector(id) THEN "throws"
           ELSE IF \E g \in Items : id \in gr[g].id THEN "found"
           ELSE "none"

\* attachTriggers, Item by Item; an exception leaves the Triggers appended so
\* far and ends the loop
RECURSIVE attachTriggersFrom(_, _, _, _)
attachTriggersFrom(it, gr, tr, i) ==
  IF i > n THEN [trigger |-> tr, threw |-> FALSE]
  ELSE LET g == getGroupNode(it, gr, i)
       IN  IF g = "throws" THEN [trigger |-> tr, threw |-> TRUE]
           ELSE attachTriggersFrom(it, gr,
                  IF g = "found" THEN [tr EXCEPT ![i] = TRUE] ELSE tr, i + 1)

attachTriggers(it, gr, tr) == attachTriggersFrom(it, gr, tr, 1)

\* initializeTreeViews on a well-formed container
initializeTreeViews ==
  LET it == adjustLinkAttributes(item)
      gr == adjustSubMenuAttributes(group)
      at == attachTriggers(it, gr, trigger)
  IN  [phase     |-> IF at.threw THEN "threw" ELSE "ready",
       treeRole  |-> "tree",
       item      |-> it,
       group     |-> gr,
       trigger   |-> at.trigger,
       listening |-> IF at.threw THEN listening ELSE [i \in Items |-> TRUE]]

Untouched(ph) ==
  [phase |-> ph, treeRole |-> treeRole, item |-> item, group |-> group,
   trigger |-> trigger, listening |-> listening]

\* new A11YTreeViewNavigation(node)
construct(h) ==
  IF typeOf(h) # "object" THEN Untouched("inert")
  ELSE IF h \in {"null", "plainObject"} THEN Untouched("threw")  \* node.querySelector
  ELSE IF h = "noList" THEN Untouched("threw")    \* this.treeNode is null
  ELSE initializeTreeViews


\* ------------------------------------------------------------ traversal
\* setFocusToTreeItem: treeItem.focus(); a missing treeItem is a TypeError
setFocusToTreeItem(treeItem, cur) ==
  IF treeItem = Null
  THEN [focus |-> cur, threw |-> TRUE]
  ELSE [focus |-> treeItem, threw |-> FALSE]

NoMove(cur) == [focus |-> cur, threw |-> FALSE]

\* setFocusToNextTreeItem walking up without asking whether an entry follows
\* the parent entry, and focusing what it finds there without the ?.
setFocusToNextTreeItem_Unguarded(it, i, cur) ==
  IF isExpanded(it, i) /\ ~hasGroup[i]
  THEN [focus |-> cur, threw |-> TRUE]
  ELSE IF isExpanded(it, i) /\ Children(i) # {}
  THEN setFocusToTreeItem(firstChild(i), cur)
  ELSE IF ~isExpanded(it, i) /\ nextEntry(i) # Null
  THEN setFocusToTreeItem(nextEntry(i), cur)
  ELSE IF ~isExpanded(it, i) /\ nextEntry(i) = Null
  THEN setFocusToTreeItem(IF parent[i] # Null THEN nextEntry(parent[i]) ELSE Null, cur)
  ELSE NoMove(cur)

setFocusToNextTreeItem(it, i, cur) ==
  IF isExpanded(it, i) /\ ~hasGroup[i]
  THEN [focus |-> cur, threw |-> TRUE]       \* nextElementSibling is null
  ELSE IF isExpanded(it, i) /\ Children(i) # {}
  THEN setFocusToTreeItem(firstChild(i), cur)
  ELSE IF ~isExpanded(it, i) /\ nextEntry(i) # Null
  THEN setFocusToTreeItem(nextEntry(i), cur)
  ELSE IF /\ ~isExpanded(it, i)
          /\ nextEntry(i) = Null
          \* closest('ul').parentNode.nextElementSibling: the entry after the
          \* parent entry; what follows the container has no Item as a child
          /\ parent[i] # Null
          /\ nextEntry(parent[i]) # Null
  THEN setFocusToTreeItem(nextEntry(parent[i]), cur)
  ELSE NoMove(cur)

\* the last Item shown below Item i: i itself unless it is expanded with
\* children, else the last Item shown below its last child
RECURSIVE lastShownBelow(_, _)
lastShownBelow(it, i) ==
  IF isExpanded(it, i) /\ Children(i) # {}
  THEN lastShownBelow(it, lastChild(i))
  ELSE i

\* setFocusToPreviousTreeItem descending through every expanded last child of
\* the preceding sibling
setFocusToPreviousTreeItem_Deepest(it, i, cur) ==
  LET prev == previousEntry(i)
  IN  IF prev # Null /\ ~isExpanded(it, prev)
      THEN setFocusToTreeItem(prev, cur)
      ELSE IF prev # Null /\ isExpanded(it, prev)
      THEN setFocusToTreeItem(
             IF lastChild(prev) = Null THEN Null ELSE lastShownBelow(it, lastChild(prev)),
             cur)
      ELSE IF prev = Null /\ parent[i] # Null
      THEN setFocusToTreeItem(parent[i], cur)
      ELSE NoMove(cur)

setFocusToPreviousTreeItem(it, i, cur) ==
  LET prev == previousEntry(i)
  IN  IF prev # Null /\ ~isExpanded(it, prev)
      THEN setFocusToTreeItem(prev, cur)
      ELSE IF prev # Null /\ isExpanded(it, prev)
      THEN setFocusToTreeItem(lastChild(prev), cur)
      \* parentNode.parentNode.previousElementSibling: the owning Item; the
      \* root list is the only child of the container
      ELSE IF prev = Null /\ parent[i] # Null
      THEN setFocusToTreeItem(parent[i], cur)
      ELSE NoMove(cur)

\* ------------------------------------------------------ expand / collapse
collapseTreeItem(it, i) ==
  IF isExpandable(it, i) /\ isExpanded(it, i)
  THEN [it EXCEPT ![i].expanded = "false"]
  ELSE it

\* expandTreeItem without the isExpandable test
expandTreeItem_Unchecked(it, i) ==
  IF ~isExpanded(it, i) THEN [it EXCEPT ![i].expanded = "true"] ELSE it

expandTreeItem(it, i) ==
  IF isExpandable(it, i) /\ ~isExpanded(it, i)
  THEN [it EXCEPT ![i].expanded = "true"]
  ELSE it

\* ------------------------------------------------------------ visibility
\* closest('ul').previousElementSibling is the owning Item, and nothing for
\* an Item of the root list
isVisible(it, i) ==
  IF parent[i] = Null \/ ~isExpanded(it, parent[i]) THEN FALSE ELSE TRUE

getVisibleTreeItems(it) ==
  SelectSeq([k \in 1..n |-> k], LAMBDA i : isVisible(it, i))

\* -------------------------------------------------------------- keydown
\* event.key values the model presses; "Enter" and "a" stand for the keys the
\* switch does not name
Keys == {" ", "ArrowUp", "ArrowDown", "ArrowRight", "ArrowLeft",
         "Home", "End", "Enter", "a"}

\* the keys the model presses with alt, ctrl or meta held: one that would move
\* focus, one that would expand, one that can throw, one the switch does not name
ModifiedKeys == {"ArrowDown", "ArrowRight", "End", "a"}

Handled(it, r) ==
  [item |-> it, focus |-> r.focus, threw |-> r.threw, flag |-> ~r.threw]

\* the Down case without the cross-section accommodation
onKeydownDown_NoJump(it, i, cur) == setFocusToNextTreeItem(it, i, cur)

\* case 'Down' / 'ArrowDown'
onKeydownDown(it, i, cur) ==
  IF Depth(i) = 2 /\ i = lastChild(parent[i])
  THEN IF section = "none"
       THEN [focus |-> cur, threw |-> TRUE]   \* closest('.book-navigation') is null
       ELSE IF section = "next"
       THEN setFocusToTreeItem(NextSectionItem, cur)
       ELSE NoMove(cur)
  ELSE setFocusToNextTreeItem(it, i, cur)

\* the Right case expanding a collapsed Item and entering it in one press
onKeydownRight_ExpandAndEnter(it, i, cur) ==
  IF isExpandable(it, i)
  THEN Handled(expandTreeItem(it, i),
               setFocusToNextTreeItem(expandTreeItem(it, i), i, cur))
  ELSE Handled(it, NoMove(cur))

\* case 'Right' / 'ArrowRight'
onKeydownRight(it, i, cur) ==
  IF isExpandable(it, i)
  THEN IF isExpanded(it, i)
       THEN Handled(it, setFocusToNextTreeItem(it, i, cur))
       ELSE Handled(expandTreeItem(it, i), NoMove(cur))
  ELSE Handled(it, NoMove(cur))

\* case 'Left' / 'ArrowLeft'
onKeydownLeft(it, i, cur) ==
  IF isExpanded(it, i)
  THEN Handled(collapseTreeItem(it, i), NoMove(cur))
  ELSE Handled(it, setFocusToPreviousTreeItem(it, i, cur))

\* case 'Home'
onKeydownHome(cur) == setFocusToTreeItem(IF n >= 1 THEN 1 ELSE Null, cur)

\* case 'End'
onKeydownEnd(it, cur) ==
  LET visibleTreeItems == getVisibleTreeItems(it)
  IN  setFocusToTreeItem(
        IF Len(visibleTreeItems) = 0 THEN Null
        ELSE visibleTreeItems[Len(visibleTreeItems)], cur)

\* the default branch leaving flag false: the event is not consumed
onKeydownDefault_NotConsumed(it, cur) ==
  [item |-> it, focus |-> cur, threw |-> FALSE, flag |-> FALSE]

\* default:
onKeydownDefault(it, cur) == Handled(it, NoMove(cur))

\* the modifier test passing the event on to the switch's default branch
onKeydownModifier_Consumed(it, cur) ==
  [item |-> it, focus |-> cur, threw |-> FALSE, flag |-> TRUE]

\* if (event.altKey || event.ctrlKey || event.metaKey) return;
onKeydownModifier(it, cur) ==
  [item |-> it, focus |-> cur, threw |-> FALSE, flag |-> FALSE]

\* onKeydown with currentTarget i; mod: altKey, ctrlKey or metaKey is held.
\* flag is what the handler reached: stopPropagation and preventDefault
onKeydown(it, cur, i, key, mod) ==
  IF mod THEN onKeydownModifier(it, cur)
  ELSE CASE key = " "                        -> Handled(it, NoMove(cur))
         [] key \in {"Up", "ArrowUp"}        -> Handled(it, setFocusToPreviousTreeItem(it, i, cur))
         [] key \in {"Down", "ArrowDown"}    -> Handled(it, onKeydownDown(it, i, cur))
         [] key \in {"Right", "ArrowRight"}  -> onKeydownRight(it, i, cur)
         [] key \in {"Left", "ArrowLeft"}    -> onKeydownLeft(it, i, cur)
         [] key = "Home"                     -> Handled(it, onKeydownHome(cur))
         [] key = "End"                      -> Handled(it, onKeydownEnd(it, cur))
         [] OTHER                            -> onKeydownDefault(it, cur)

\* a Trigger that only ever expands
onTriggerClick_ExpandOnly(it, i) == expandTreeItem(it, i)

\* onTriggerClick with currentTarget the Trigger of Item i
onTriggerClick(it, i) ==
  IF isExpanded(it, i) THEN collapseTreeItem(it, i) ELSE expandTreeItem(it, i)

\* ---------------------------------------------------------------- events
Event(op, i, key, mod, threw, flag) ==
  [op |-> op, item |-> i, key |-> key, mod |-> mod, threw |-> threw,
   stopped |-> flag, prevented |-> flag]

\* texts that clean to distinct, non-empty identifiers: "a", "b", "c", ...
DefaultText(i) == <<LowerCase[i]>>

\* the lists a host page may nest under m Items
Forests(m) == {p \in [1..m -> 0..(m - 1)] : IsDocumentOrder(p, m)}

\* which Items are followed by a list: every Item with children, and at most
\* MaxEmptyGroups of the others
GroupMarks(m, p) ==
  {hg \in [1..m -> BOOLEAN] :
     /\ \A i \in 1..m : (\E j \in 1..m : p[j] = i) => hg[i]
     /\ Cardinality({i \in 1..m : hg[i] /\ ~\E j \in 1..m : p[j] = i}) <= MaxEmptyGroups}

\* the host marks at most one Item is-active (the page being shown)
SingleActive(m) == {{}} \cup {{i} : i \in 1..m}

\* any MaxActive Items carry is-active
ActiveMarks(m) == {ac \in SUBSET (1..m) : Cardinality(ac) <= MaxActive}

Markup(m, p, hg, ac) ==
  /\ n = m
  /\ parent = p
  /\ hasGroup = hg
  /\ active = ac
  /\ text = [i \in 1..m |-> DefaultText(i)]

InitTree ==
  /\ host = "tree"
  /\ \E m \in 1..MaxItems : \E p \in Forests(m) : \E hg \in GroupMarks(m, p) :
       \E ac \in SingleActive(m) : Markup(m, p, hg, ac)
  /\ section \in Sections

InitTreeActive ==
  /\ host = "tree"
  /\ \E m \in 1..MaxItems : \E p \in Forests(m) : \E hg \in GroupMarks(m, p) :
       \E ac \in ActiveMarks(m) : Markup(m, p, hg, ac)
  /\ section \in Sections

InitOther ==
  /\ host \in Hosts \ {"tree"}
  /\ n = 0
  /\ parent = <<>>
  /\ hasGroup = <<>>
  /\ active = {}
  /\ text = <<>>
  /\ section = "none"

InitEngine ==
  /\ phase = "markup"
  /\ treeRole = "absent"
  /\ item = [i \in Items |-> [MarkupItem EXCEPT !.expanded = preset[i]]]
  /\ group = [i \in Items |-> MarkupGroup]
  /\ trigger = [i \in Items |-> FALSE]
  /\ listening = [i \in Items |-> FALSE]
  /\ focus = Null
  /\ lastEvent = Event("none", Null, "", FALSE, FALSE, FALSE)

\* a page that holds no .accordion
NoAccordion == accordion = <<>>

\* host markup that writes no aria-expanded
NoPreset == preset = [i \in Items |-> "absent"]

Init == (InitTree \/ InitOther) /\ NoPreset /\ InitEngine /\ NoAccordion

InitActive == InitTreeActive /\ NoPreset /\ InitEngine /\ NoAccordion

\* new A11YTreeViewNavigation(node)
Construct ==
  /\ phase = "markup"
  /\ LET c == construct(host)
     IN  /\ phase' = c.phase
         /\ treeRole' = c.treeRole
         /\ item' = c.item
         /\ group' = c.group
         /\ trigger' = c.trigger
         /\ listening' = c.listening
         /\ lastEvent' = Event("construct", Null, "", FALSE, c.phase = "threw", FALSE)
  /\ UNCHANGED <<static, focus, accordion>>

\* the user moves focus to Item i with the pointer or the Tab key
UserFocus(i) ==
  /\ phase # "markup"
  /\ focus # i
  /\ focus' = i
  /\ lastEvent' = Event("focus", i, "", FALSE, FALSE, FALSE)
  /\ UNCHANGED <<static, phase, dom, accordion>>

\* a keydown reaches the listener of the focused Item i
KeyDown(i, key, mod) ==
  /\ i \in Items
  /\ listening[i]
  /\ LET r == onKeydown(item, focus, i, key, mod)
     IN  /\ item' = r.item
         /\ focus' = r.focus
         /\ lastEvent' = Event("keydown", i, key, mod, r.threw, r.flag)
  /\ UNCHANGED <<static, phase, treeRole, group, trigger, listening, accordion>>

\* a click reaches the listener of the Trigger of Item i
TriggerClick(i) ==
  /\ trigger[i]
  /\ item' = onTriggerClick(item, i)
  /\ lastEvent' = Event("click", i, "", FALSE, FALSE, TRUE)
  /\ UNCHANGED <<static, phase, treeRole, group, trigger, listening, focus, accordion>>

Next ==
  \/ Construct
  \/ \E i \in Items : UserFocus(i)
  \/ \E key \in Keys : KeyDown(focus, key, FALSE)
  \/ \E key \in ModifiedKeys : KeyDown(focus, key, TRUE)
  \/ \E i \in Items : TriggerClick(i)

Spec == Init /\ [][Next]_vars

\* the same engine on host pages that mark several Items is-active
SpecActive == InitActive /\ [][Next]_vars

\* ------------------------------------------------------- pre-set markup
\* the aria-expanded values a host page may have written on the Items that
\* are followed by a list (by hand, or left by an earlier engine)
Presets(m, hg) ==
  {pr \in [1..m -> {"absent", "true", "false"}] :
     \A i \in 1..m : ~hg[i] => pr[i] = "absent"}

InitPreset ==
  /\ host = "tree"
  /\ \E m \in 1..MaxItems : \E p \in Forests(m) : \E hg \in GroupMarks(m, p) :
       \E ac \in ActiveMarks(m) :
         /\ Markup(m, p, hg, ac)
         /\ preset \in Presets(m, hg)
  /\ section = "last"
  /\ InitEngine
  /\ NoAccordion

\* the constructor is all that runs on these pages
NextPreset == Construct

SpecPreset == InitPreset /\ [][NextPreset]_vars

\* ------------------------------------------------------------ deep trees
MaxDeepItems == 4     \* Items of the trees walked with the arrow keys

ArrowKeys == {"ArrowUp", "ArrowDown", "ArrowLeft", "ArrowRight"}

\* trees of up to MaxDeepItems Items, no Item marked is-active
InitDeep ==
  /\ host = "tree"
  /\ \E m \in 1..MaxDeepItems : \E p \in Forests(m) : \E hg \in GroupMarks(m, p) :
       Markup(m, p, hg, {})
  /\ section = "last"
  /\ NoPreset
  /\ InitEngine
  /\ NoAccordion

\* construction, pointer focus, the four arrow keys and the Triggers
NextDeep ==
  \/ Construct
  \/ \E i \in Items : UserFocus(i)
  \/ \E key \in ArrowKeys : KeyDown(focus, key, FALSE)
  \/ \E i \in Items : TriggerClick(i)

SpecDeep == InitDeep /\ [][NextDeep]_vars

\* ---------------------------------------------------------- Item texts
\* textContent values a host page may give an Item: " Section  One! ", "Open",
\* "Open Source", "1a" and "a"
TextSectionOne ==
  <<" ", "S", "e", "c", "t", "i", "o", "n", " ", " ", "O", "n", "e", "!", " ">>
TextOpen == <<"O", "p", "e", "n">>
TextOpenSource == <<"O", "p", "e", "n", " ", "S", "o", "u", "r", "c", "e">>
TextDigit == <<"1", "a">>
Texts == {TextSectionOne, TextOpen, TextOpenSource, TextDigit, DefaultText(1)}

\* host pages whose Items carry any of the Texts, the same text on several
\* Items included; no Item is marked is-active
InitText ==
  /\ host = "tree"
  /\ \E m \in 1..MaxItems : \E p \in Forests(m) : \E hg \in GroupMarks(m, p) :
       /\ n = m
       /\ parent = p
       /\ hasGroup = hg
       /\ text \in [1..m -> Texts]
  /\ active = {}
  /\ section = "last"
  /\ NoPreset
  /\ InitEngine
  /\ NoAccordion

SpecText == InitText /\ [][Next]_vars

\* ------------------------------------------------------------ accordion
MaxAccordions == 2    \* .accordion elements of the page

\* the trigger and the panel of one accordion as the host page wrote them:
\* the is-expanded class on each, aria-expanded on the trigger; listening
\* tells whether new A11yAccordion(element) has run
AccordionMarkup ==
  [triggerClass : BOOLEAN, panelClass : BOOLEAN,
   ariaExpanded : {"absent", "true", "false"}, listening : {FALSE}]

\* isExpanded = () => this.accordionTrigger.classList.contains(this.expandedClass)
Accordion_isExpanded(acc) == acc.triggerClass

Accordion_expand(acc) ==
  [acc EXCEPT !.panelClass = TRUE, !.triggerClass = TRUE, !.ariaExpanded = "true"]

Accordion_collapse(acc) ==
  [acc EXCEPT !.panelClass = FALSE, !.triggerClass = FALSE, !.ariaExpanded = "false"]

onClickTrigger(acc) ==
  IF Accordion_isExpanded(acc) THEN Accordion_collapse(acc) ELSE Accordion_expand(acc)

\* event.key values pressed on the trigger
AccordionKeys == {"Enter", " ", "Tab", "ArrowDown", "a"}

\* a keydown handler that toggles whatever the key
onKeydownTrigger_AnyKey(acc, key) ==
  [acc |-> IF Accordion_isExpanded(acc) THEN Accordion_collapse(acc)
           ELSE Accordion_expand(acc),
   prevented |-> TRUE]

onKeydownTrigger(acc, key) ==
  IF key = "Enter" \/ key = " "
  THEN [acc |-> IF Accordion_isExpanded(acc) THEN Accordion_collapse(acc)
                ELSE Accordion_expand(acc),
        prevented |-> TRUE]
  ELSE [acc |-> acc, prevented |-> FALSE]

\* a page of accordions and no tree
InitAccordion ==
  /\ host = "undefined"
  /\ n = 0
  /\ parent = <<>>
  /\ hasGroup = <<>>
  /\ active = {}
  /\ text = <<>>
  /\ section = "none"
  /\ NoPreset
  /\ InitEngine
  /\ \E k \in 1..MaxAccordions : accordion \in [1..k -> AccordionMarkup]

\* new A11yAccordion(element): init() installs the two listeners
AccordionConstruct(a) ==
  /\ ~accordion[a].listening
  /\ accordion' = [accordion EXCEPT ![a].listening = TRUE]
  /\ lastEvent' = Event("accordion-construct", a, "", FALSE, FALSE, FALSE)
  /\ UNCHANGED <<static, phase, dom, focus>>

\* a click reaches the trigger of accordion a
AccordionClick(a) ==
  /\ accordion[a].listening
  /\ accordion' = [accordion EXCEPT ![a] = onClickTrigger(accordion[a])]
  /\ lastEvent' = Event("accordion-click", a, "", FALSE, FALSE, FALSE)
  /\ UNCHANGED <<static, phase, dom, focus>>

\* a keydown reaches the trigger of accordion a
AccordionKeyDown(a, key) ==
  /\ accordion[a].listening
  /\ LET r == onKeydownTrigger(accordion[a], key)
     IN  /\ accordion' = [accordion EXCEPT ![a] = r.acc]
         /\ lastEvent' = [Event("accordion-keydown", a, key, FALSE, FALSE, FALSE)
                            EXCEPT !.prevented = r.prevented]
  /\ UNCHANGED <<static, phase, dom, focus>>

NextAccordion ==
  \/ \E a \in DOMAIN accordion : AccordionConstruct(a)
  \/ \E a \in DOMAIN accordion : AccordionClick(a)
  \/ \E a \in DOMAIN accordion : \E key \in AccordionKeys : AccordionKeyDown(a, key)

SpecAccordion == InitAccordion /\ [][NextAccordion]_vars


\* ================================================================ claims
\* vocabulary of the claims
Constructed == phase = "ready"

\* the Items reachable with the Tab key
TabReachable == {i \in Items : item[i].tabIndex = "0"}

\* visible as the specification defines it: every ancestor Item is expanded
Visible(i) == \A a \in Ancestors(i) : isExpanded(item, a)

Returned(seq) == {seq[k] : k \in DOMAIN seq}

KeyPressed(key) ==
  lastEvent.op = "keydown" /\ lastEvent.key = key /\ ~lastEvent.mod

\* what a handler that changes nothing and consumes the event returns
Consumed(it, cur) == [item |-> it, focus |-> cur, threw |-> FALSE, flag |-> TRUE]

\* C1: in every state after construction, on any tree and with any set of
\* Items marked is-active, at most one Item has tabIndex 0.
C1_SingleRovingFocus == Constructed => Cardinality(TabReachable) <= 1

\* C2: getVisibleTreeItems never returns an Item that has a collapsed ancestor
\* at any depth above it.
C2_VisibilityTransitive ==
  Constructed =>
    \A i \in Returned(getVisibleTreeItems(item)) :
      \A a \in Ancestors(i) : isExpanded(item, a)

\* C3: getVisibleTreeItems returns every depth-1 Item, and lists the Items it
\* returns in document order.
C3_RootItemsVisible ==
  Constructed =>
    LET vis == getVisibleTreeItems(item)
    IN  /\ \A i \in Items : parent[i] = Null => i \in Returned(vis)
        /\ \A k \in DOMAIN vis : \A l \in DOMAIN vis : k < l => vis[k] < vis[l]

\* C4: End without modifier moves focus to the last visible Item of the tree
\* in document order, and Home to the first Item; with three depth-1 Items,
\* End focuses the third and Home the first.
C4_EndFocusesLastVisible ==
  Constructed =>
    /\ KeyPressed("End") =>
         ~lastEvent.threw /\ focus = SetMax({i \in Items : Visible(i)})
    /\ KeyPressed("Home") => ~lastEvent.threw /\ focus = 1


\* C5: setFocusToNextTreeItem on the last Item of the tree and
\* setFocusToPreviousTreeItem on the first Item never throw and change
\* neither focus nor any attribute, called directly or through the keys that
\* call them (Up, Left on an Item that is not expanded, Down outside the
\* depth-2 jump, Right on an expanded Item).
C5_TraversalStopsAtEnds ==
  Constructed =>
    /\ setFocusToNextTreeItem(item, n, focus) = NoMove(focus)
    /\ setFocusToPreviousTreeItem(item, 1, focus) = NoMove(focus)
    /\ onKeydown(item, focus, 1, "ArrowUp", FALSE) = Consumed(item, focus)
    /\ ~isExpanded(item, 1) =>
         onKeydown(item, focus, 1, "ArrowLeft", FALSE) = Consumed(item, focus)
    /\ ~(Depth(n) = 2 /\ n = lastChild(parent[n])) =>
         onKeydown(item, focus, n, "ArrowDown", FALSE) = Consumed(item, focus)
    /\ isExpanded(item, n) =>
         onKeydown(item, focus, n, "ArrowRight", FALSE) = Consumed(item, focus)
    /\ (KeyPressed("ArrowUp") /\ lastEvent.item = 1) =>
         ~lastEvent.threw /\ focus = 1

\* C5 witness: ArrowDown was pressed on the last Item of a tree of several
\* Items, outside the depth-2 jump, and focus stayed on it.
C5_Witness ==
  /\ Constructed /\ n > 1
  /\ KeyPressed("ArrowDown") /\ lastEvent.item = n
  /\ ~(Depth(n) = 2 /\ n = lastChild(parent[n]))
  /\ ~lastEvent.threw /\ focus = n

\* C6 (state part): expandTreeItem on an expanded Item, collapseTreeItem on a
\* collapsed Item and both on a non-expandable Item return the attributes
\* unchanged; each applied twice equals itself applied once.
C6_Primitives ==
  Constructed =>
    \A i \in Items :
      /\ isExpanded(item, i) => expandTreeItem(item, i) = item
      /\ (isExpandable(item, i) /\ ~isExpanded(item, i)) => collapseTreeItem(item, i) = item
      /\ ~isExpandable(item, i) =>
           expandTreeItem(item, i) = item /\ collapseTreeItem(item, i) = item
      /\ expandTreeItem(expandTreeItem(item, i), i) = expandTreeItem(item, i)
      /\ collapseTreeItem(collapseTreeItem(item, i), i) = collapseTreeItem(item, i)

\* C6 (step part): a step that expands or collapses an Item (a Trigger click,
\* Right on a collapsed Item, Left on an expanded Item) leaves focus where it was.
C6_FocusStays ==
  (\E i \in Items : item'[i].expanded # item[i].expanded) => focus' = focus

\* C6: expand on an expanded Item and collapse on a collapsed Item are no-ops,
\* both are no-ops on a non-expandable Item, both are idempotent, and neither
\* moves focus.
C6_ExpandCollapseIdempotent == [](C6_Primitives) /\ [][C6_FocusStays]_vars

\* C6 witness: a Trigger click collapsed an expanded Item while another Item
\* held focus.
C6_Witness ==
  /\ Constructed
  /\ lastEvent.op = "click"
  /\ item[lastEvent.item].expanded = "false"
  /\ focus \in Items /\ focus # lastEvent.item

\* C7: with exactly one Item marked is-active, construction leaves every
\* ancestor Item of it with aria-expanded "true", and the active Item is the
\* only Item with tabIndex 0.
C7_ActiveItemSetup ==
  (Constructed /\ Cardinality(active) = 1) =>
    /\ TabReachable = active
    /\ lastEvent.op = "construct" =>
         \A x \in active : \A a \in Ancestors(x) : item[a].expanded = "true"

\* C7 witness: construction has just run on a tree whose only active Item is
\* nested two levels deep (Scenario D).
C7_Witness ==
  /\ Constructed /\ lastEvent.op = "construct"
  /\ \E x \in Items : active = {x} /\ Depth(x) = 3

\* C8: a container that is not a well-formed node (undefined, a primitive,
\* null, a non-DOM object, a node without a direct child list) makes the
\* constructor return without an exception and without writing anything.
C8_MalformedHostInert ==
  (host # "tree" /\ phase # "markup") =>
    /\ phase = "inert" /\ ~lastEvent.threw
    /\ treeRole = "absent"
    /\ \A i \in Items : item[i] = MarkupItem /\ ~trigger[i] /\ ~listening[i]

\* C9: at any time exactly one Item has tabIndex 0, and after an arrow key
\* moved focus from Item X to Item Y, Y has tabIndex 0 and X has not.
C9_RovingFollowsFocus ==
  Constructed =>
    /\ Cardinality(TabReachable) = 1
    /\ ( /\ lastEvent.op = "keydown" /\ ~lastEvent.mod
         /\ lastEvent.key \in {"ArrowUp", "ArrowDown", "ArrowLeft", "ArrowRight"}
         /\ focus \in Items /\ focus # lastEvent.item )
       => (item[focus].tabIndex = "0" /\ item[lastEvent.item].tabIndex # "0")

\* the keys of the model that the switch of onKeydown does not name
UnrecognizedKeys == {"Enter", "a"}

\* C10: a keydown without modifier of a key the switch does not name raises
\* nothing, changes neither focus nor any attribute, and is consumed
\* (propagation stopped, default prevented).
C10_UnrecognizedKeySwallowed ==
  Constructed =>
    /\ \A i \in Items : \A key \in UnrecognizedKeys :
         onKeydown(item, focus, i, key, FALSE) = Consumed(item, focus)
    /\ (lastEvent.op = "keydown" /\ ~lastEvent.mod /\ lastEvent.key \in UnrecognizedKeys) =>
         /\ ~lastEvent.threw /\ lastEvent.stopped /\ lastEvent.prevented
         /\ focus = lastEvent.item

\* C10 witness: the letter key was pressed on an Item below an expanded Item.
C10_Witness ==
  /\ Constructed /\ KeyPressed("a")
  /\ lastEvent.stopped /\ lastEvent.prevented
  /\ focus = lastEvent.item /\ parent[focus] # Null /\ isExpanded(item, parent[focus])

\* what a handler that returns at once returns: nothing changed, not consumed
Ignored(it, cur) == [item |-> it, focus |-> cur, threw |-> FALSE, flag |-> FALSE]

\* C11 (state part): with alt, ctrl or meta held, the handler of every Item
\* returns for every key without changing focus or any attribute and without
\* consuming the event.
C11_ModifierReturns ==
  Constructed =>
    /\ \A i \in Items : \A key \in Keys :
         onKeydown(item, focus, i, key, TRUE) = Ignored(item, focus)
    /\ (lastEvent.op = "keydown" /\ lastEvent.mod) =>
         ~lastEvent.threw /\ ~lastEvent.stopped /\ ~lastEvent.prevented

\* C11 (step part): a keydown with a modifier held leaves focus and every
\* attribute of the tree as they were.
C11_ModifierStep ==
  (lastEvent'.op = "keydown" /\ lastEvent'.mod) =>
    focus' = focus /\ item' = item /\ UNCHANGED dom

\* C11: a keydown on an Item with alt, ctrl or meta held, for any key, changes
\* neither focus nor any attribute, and the event is neither stopped from
\* propagating nor has its default action suppressed.
C11_ModifierKeysIgnored == [](C11_ModifierReturns) /\ [][C11_ModifierStep]_vars

\* C11 witness: ArrowRight with a modifier held was pressed on a collapsed
\* expandable Item, which stayed collapsed and kept focus.
C11_Witness ==
  /\ Constructed
  /\ lastEvent.op = "keydown" /\ lastEvent.mod /\ lastEvent.key = "ArrowRight"
  /\ focus = lastEvent.item
  /\ isExpandable(item, focus) /\ ~isExpanded(item, focus)
  /\ ~lastEvent.stopped /\ ~lastEvent.prevented

\* the visible Item following / preceding Item i in document order
NextVisibleItem(i) ==
  LET later == {j \in Items : j > i /\ Visible(j)}
  IN  IF later = {} THEN Null ELSE SetMin(later)

PreviousVisibleItem(i) ==
  LET earlier == {j \in Items : j < i /\ Visible(j)}
  IN  IF earlier = {} THEN Null ELSE SetMax(earlier)

\* C12: Right on the focused visible Item: collapsed and expandable, it becomes
\* expanded and keeps focus; expanded, focus moves to the next visible Item
\* (the first child when the Group has children) and no expanded state
\* changes; not expandable, nothing changes.
C12_RightKey ==
  (Constructed /\ focus \in Items /\ Visible(focus)) =>
    LET r == onKeydown(item, focus, focus, "ArrowRight", FALSE)
    IN  /\ (isExpandable(item, focus) /\ ~isExpanded(item, focus)) =>
             r = Consumed([item EXCEPT ![focus].expanded = "true"], focus)
        /\ (isExpandable(item, focus) /\ isExpanded(item, focus)) =>
             /\ r.item = item /\ ~r.threw
             /\ Children(focus) # {} => r.focus = firstChild(focus)
             /\ NextVisibleItem(focus) # Null => r.focus = NextVisibleItem(focus)
        /\ ~isExpandable(item, focus) => r = Consumed(item, focus)

\* C13: Left on the focused visible Item: expanded, it becomes collapsed and
\* keeps focus; not expanded, focus moves to the previous visible Item and no
\* expanded state changes; on the first child of an expanded Item focus moves
\* to the owning Item.
C13_LeftKey ==
  (Constructed /\ focus \in Items /\ Visible(focus)) =>
    LET r == onKeydown(item, focus, focus, "ArrowLeft", FALSE)
    IN  /\ isExpanded(item, focus) =>
             r = Consumed([item EXCEPT ![focus].expanded = "false"], focus)
        /\ ~isExpanded(item, focus) =>
             /\ r.item = item /\ ~r.threw
             /\ PreviousVisibleItem(focus) # Null => r.focus = PreviousVisibleItem(focus)
             /\ (parent[focus] # Null /\ focus = firstChild(parent[focus])) =>
                  r.focus = parent[focus]

\* the last Item of a depth-2 group
LastOfDepth2(i) == Depth(i) = 2 /\ i = lastChild(parent[i])

\* C14: Down on the last Item of a depth-2 group moves focus to the first
\* depth-1 Item of the section following the enclosing section (and nowhere
\* when no such Item follows); Down on every other Item does what
\* setFocusToNextTreeItem does; Down never changes an expanded state.
C14_DownKey ==
  Constructed =>
    /\ \A i \in Items :
         LET r == onKeydown(item, focus, i, "ArrowDown", FALSE)
         IN  /\ r.item = item
             /\ (LastOfDepth2(i) /\ section = "next") =>
                  r = Consumed(item, NextSectionItem)
             /\ (LastOfDepth2(i) /\ section = "last") => r = Consumed(item, focus)
             /\ ~LastOfDepth2(i) =>
                  r = Handled(item, setFocusToNextTreeItem(item, i, focus))
    /\ (KeyPressed("ArrowDown") /\ LastOfDepth2(lastEvent.item) /\ section = "next") =>
         focus = NextSectionItem /\ lastEvent.stopped /\ lastEvent.prevented

\* C14 witness: Down was pressed on the last Item of a depth-2 group that has
\* a preceding sibling, and focus left the tree for the next section.
C14_Witness ==
  /\ Constructed /\ KeyPressed("ArrowDown")
  /\ LastOfDepth2(lastEvent.item) /\ previousEntry(lastEvent.item) # Null
  /\ focus = NextSectionItem

\* C15: after construction every Item followed by a Group carries a Trigger
\* and every other Item none, whatever the texts of the Items.
C15_TriggerPerGroup ==
  (host = "tree" /\ phase # "markup") =>
    \A i \in Items : trigger[i] <=> hasGroup[i]

\* C16 (state part): a click on the Trigger of Item i turns "true" into
\* "false" and anything else into "true" on Item i, changes nothing else, a
\* second click restores the attributes, and the click is stopped and prevented.
C16_ClickFlips ==
  Constructed =>
    /\ \A i \in Items : trigger[i] =>
         LET a == onTriggerClick(item, i)
         IN  /\ isExpanded(item, i) => a = [item EXCEPT ![i].expanded = "false"]
             /\ ~isExpanded(item, i) => a = [item EXCEPT ![i].expanded = "true"]
             /\ onTriggerClick(a, i) = item
    /\ lastEvent.op = "click" =>
         ~lastEvent.threw /\ lastEvent.stopped /\ lastEvent.prevented

\* C16 (step part): a Trigger click changes the expanded state of the owning
\* Item, no other Item, and not the focus.
C16_ClickStep ==
  lastEvent'.op = "click" =>
    /\ focus' = focus
    /\ isExpanded(item', lastEvent'.item) # isExpanded(item, lastEvent'.item)
    /\ \A j \in Items \ {lastEvent'.item} : item'[j] = item[j]
    /\ UNCHANGED <<treeRole, group, trigger, listening>>

\* C16: clicking the Trigger of an Item flips the expanded state of exactly
\* that Item, moves no focus, changes no other Item, is stopped and
\* prevented, and two clicks in a row restore the prior state.
C16_TriggerClickToggles == [](C16_ClickFlips) /\ [][C16_ClickStep]_vars

\* C16 witness: a Trigger click expanded an Item while a different Item held
\* focus.
C16_Witness ==
  /\ Constructed
  /\ lastEvent.op = "click"
  /\ item[lastEvent.item].expanded = "true"
  /\ focus \in Items /\ focus # lastEvent.item

\* C17: after construction and after any key presses and Trigger clicks, an
\* Item carries aria-expanded exactly when a Group follows it, and the value
\* is "true" or "false".
C17_ExpandableMarker ==
  Constructed =>
    \A i \in Items :
      /\ (item[i].expanded # "absent") <=> hasGroup[i]
      /\ hasGroup[i] => item[i].expanded \in {"true", "false"}

\* C17 witness: Right expanded an Item of a tree in which an Item without a
\* Group is marked is-active.
C17_Witness ==
  /\ Constructed
  /\ KeyPressed("ArrowRight") /\ isExpanded(item, lastEvent.item)
  /\ \E x \in active : ~hasGroup[x] /\ item[x].expanded = "absent"

\* the steps of cleanForId before the "open" rule
normalize(str) ==
  collapseHyphens(spacesToHyphen(removeSpecial(trim(toLowerCase(str)))))

\* a strip rule that removes a trailing literal "open" only
stripTrailingOpen(str) ==
  IF Len(str) >= 4 /\ SubSeq(str, Len(str) - 3, Len(str)) = <<"o", "p", "e", "n">>
  THEN SubSeq(str, 1, Len(str) - 4)
  ELSE str

\* C18: cleanForId lowercases, trims, strips what is no word character,
\* whitespace or hyphen, turns whitespace runs and hyphen runs into one
\* hyphen, and then removes only a trailing "open": " Section  One! " gives
\* "section-one", "Open" gives the empty string, and the identifier written
\* on every Item followed by a Group is the normalized text less a trailing
\* "open".
C18_IdentifierDerivation ==
  /\ cleanForId(TextSectionOne) =
       <<"s", "e", "c", "t", "i", "o", "n", "-", "o", "n", "e">>
  /\ cleanForId(TextOpen) = <<>>
  /\ (host = "tree" /\ phase # "markup") =>
       \A i \in Items :
         hasGroup[i] => item[i].owns = {stripTrailingOpen(normalize(text[i]))}

\* an accordion whose classes and attribute agree
Mirrored(acc) ==
  /\ acc.triggerClass = acc.panelClass
  /\ (acc.ariaExpanded = "true") <=> acc.triggerClass
  /\ (acc.ariaExpanded = "false") <=> ~acc.triggerClass

\* C19: on every accordion, a click and a keydown of Enter or Space turn an
\* expanded accordion into a collapsed one and a collapsed one into an
\* expanded one, two of them restore the prior state, and a keydown of any
\* other key changes nothing.
C19_AccordionToggle ==
  \A a \in DOMAIN accordion :
    LET acc == accordion[a]
        once == onClickTrigger(acc)
    IN  /\ Accordion_isExpanded(once) = ~Accordion_isExpanded(acc)
        /\ Mirrored(once)
        /\ Accordion_isExpanded(onClickTrigger(once)) = Accordion_isExpanded(acc)
        /\ Mirrored(acc) => onClickTrigger(once) = acc
        /\ \A key \in {"Enter", " "} :
             /\ onKeydownTrigger(acc, key).acc = once
             /\ onKeydownTrigger(once, key).acc = onClickTrigger(once)
        /\ \A key \in AccordionKeys \ {"Enter", " "} :
             onKeydownTrigger(acc, key).acc = acc
        /\ (lastEvent.op = "accordion-keydown" /\ lastEvent.item = a
            /\ lastEvent.key \notin {"Enter", " "}) => ~lastEvent.prevented

\* C19 witness: Space was pressed on the trigger of an accordion, which is now
\* collapsed, while the page holds another accordion that is expanded.
C19_Witness ==
  /\ lastEvent.op = "accordion-keydown" /\ lastEvent.key = " "
  /\ lastEvent.prevented
  /\ ~Accordion_isExpanded(accordion[lastEvent.item])
  /\ accordion[lastEvent.item].ariaExpanded = "false"
  /\ \E b \in DOMAIN accordion : b # lastEvent.item /\ Accordion_isExpanded(accordion[b])

\* C20: once an accordion is constructed, before the first toggle and after
\* any clicks and key presses, the aria-expanded of its trigger is "true"
\* exactly when the trigger carries the expanded class and exactly when the
\* panel carries it.
C20_AccordionMirrors ==
  \A a \in DOMAIN accordion :
    accordion[a].listening =>
      /\ (accordion[a].ariaExpanded = "true") <=> accordion[a].triggerClass
      /\ (accordion[a].ariaExpanded = "true") <=> accordion[a].panelClass

\* what setFocusToTreeItem returns after focusing Item j
Focused(j) == [focus |-> j, threw |-> FALSE]

\* C21: in every state after construction and for every Item,
\* setFocusToNextTreeItem focuses the first child when the Item is expanded
\* and its Group has children; otherwise, an expanded Item with an empty Group
\* included, the Item of the following sibling entry when there is one;
\* otherwise the Item of the entry following the parent entry when there is one.
C21_NextVisibleItemRules ==
  Constructed =>
    \A i \in Items :
      LET r == setFocusToNextTreeItem(item, i, focus)
          rule1 == isExpanded(item, i) /\ Children(i) # {}
          rule2 == ~rule1 /\ nextEntry(i) # Null
          rule3 == /\ ~rule1 /\ ~rule2
                   /\ parent[i] # Null /\ nextEntry(parent[i]) # Null
      IN  /\ rule1 => r = Focused(firstChild(i))
          /\ rule2 => r = Focused(nextEntry(i))
          /\ rule3 => r = Focused(nextEntry(parent[i]))

\* C22: for every visible Item that has a later visible Item in document
\* order, at whatever depth, setFocusToNextTreeItem moves focus to an Item.
C22_NextStopsOnlyAtLast ==
  Constructed =>
    \A i \in Items :
      (Visible(i) /\ NextVisibleItem(i) # Null) =>
        LET r == setFocusToNextTreeItem(item, i, i)
        IN  ~r.threw /\ r.focus \in Items /\ r.focus # i

\* C23: in every state after construction and for every Item,
\* setFocusToPreviousTreeItem focuses the Item of the preceding sibling entry
\* when that Item is not expanded; the last direct child of that Item when it
\* is expanded (and has a child), whether or not that child is expanded
\* itself; the parent Item when no sibling precedes.  Up on a second child
\* whose first sibling is not expanded moves to that sibling, and Up on a
\* first child moves to the owning Item.
C23_PreviousVisibleItemRules ==
  Constructed =>
    \A i \in Items :
      LET prev == previousEntry(i)
          r == setFocusToPreviousTreeItem(item, i, focus)
          up == onKeydown(item, focus, i, "ArrowUp", FALSE)
      IN  /\ (prev # Null /\ ~isExpanded(item, prev)) => r = Focused(prev)
          /\ (prev # Null /\ isExpanded(item, prev) /\ Children(prev) # {}) =>
               r = Focused(lastChild(prev))
          /\ (prev = Null /\ parent[i] # Null) => r = Focused(parent[i])
          /\ (parent[i] # Null /\ prev # Null /\ prev = firstChild(parent[i])
              /\ ~isExpanded(item, prev)) => up = Consumed(item, prev)
          /\ (parent[i] # Null /\ i = firstChild(parent[i])) =>
               up = Consumed(item, parent[i])

\* C23 witness: Up was pressed on an Item whose preceding sibling is expanded
\* and whose sibling's last child is expanded with children too; focus is on
\* that last child.
C23_Witness ==
  /\ Constructed /\ KeyPressed("ArrowUp") /\ ~lastEvent.threw
  /\ LET prev == previousEntry(lastEvent.item)
     IN  /\ prev # Null /\ isExpanded(item, prev) /\ Children(prev) # {}
         /\ isExpanded(item, lastChild(prev)) /\ Children(lastChild(prev)) # {}
         /\ focus = lastChild(prev)

\* C24: right after construction every expandable Item has aria-expanded
\* "true" if it is a proper ancestor of an Item marked is-active and "false"
\* if not, wherever the active Items stand and whatever aria-expanded the
\* markup wrote on the Items followed by a list.
C24_InitialExpansion ==
  (Constructed /\ lastEvent.op = "construct") =>
    \A i \in Items :
      /\ isExpandable(item, i) <=> hasGroup[i]
      /\ isExpandable(item, i) =>
           item[i].expanded =
             IF \E x \in active : i \in Ancestors(x) THEN "true" ELSE "false"

\* C24 witness: construction has run on a page with two active Items where the
\* markup had "true" on an Item that is no ancestor of either and "false" on
\* one that is.
C24_Witness ==
  /\ Constructed /\ lastEvent.op = "construct"
  /\ Cardinality(active) = 2
  /\ \E i \in Items : preset[i] = "true" /\ item[i].expanded = "false"
  /\ \E i \in Items : preset[i] = "false" /\ item[i].expanded = "true"

\* C25: in every state after construction, for every Item and every key the
\* keydown handler ends without raising and consumes the event.
C25_HandlerNeverRaises ==
  Constructed =>
    /\ \A i \in Items : \A key \in Keys :
         LET r == onKeydown(item, focus, i, key, FALSE)
         IN  ~r.threw /\ r.flag
    /\ (lastEvent.op = "keydown" /\ ~lastEvent.mod) =>
         ~lastEvent.threw /\ lastEvent.stopped /\ lastEvent.prevented

\* the keys that move focus or change an expanded state
NavigationKeys ==
  {"ArrowUp", "ArrowDown", "ArrowLeft", "ArrowRight", "Home", "End"}

\* C26: a press of Up, Down, Left, Right, Home or End on a focused visible
\* Item leaves focus on an Item whose every ancestor Item is expanded.
C26_FocusStaysVisible ==
  (Constructed /\ focus \in Items /\ Visible(focus)) =>
    \A key \in NavigationKeys :
      LET r == onKeydown(item, focus, focus, key, FALSE)
      IN  r.focus \in Items =>
            \A a \in Ancestors(r.focus) : isExpanded(r.item, a)

\* the Items focused by pressing Down again and again from Item cur, at most
\* k times, until a press raises, leaves the tree or moves nothing
RECURSIVE DownWalk(_, _, _)
DownWalk(it, cur, k) ==
  LET r == onKeydown(it, cur, cur, "ArrowDown", FALSE)
  IN  IF k = 0 \/ r.threw \/ r.focus \notin Items \/ r.focus = cur
      THEN <<cur>>
      ELSE <<cur>> \o DownWalk(it, r.focus, k - 1)

\* C27: with the expanded states as they are, pressing Down repeatedly from
\* the first Item focuses every visible Item once, in document order, and
\* stops at the last visible Item.
C27_DownVisitsAllVisible ==
  Constructed =>
    DownWalk(item, 1, n) = SelectSeq([k \in 1..n |-> k], LAMBDA i : Visible(i))

\* C28 (state part): the handler of every Item returns, for every key, either
\* the focus or the attributes unchanged, and attributes that differ at most
\* in the aria-expanded of that Item.
C28_KeyOutcome ==
  Constructed =>
    \A i \in Items : \A key \in Keys : \A mod \in BOOLEAN :
      LET r == onKeydown(item, focus, i, key, mod)
      IN  /\ r.focus = focus \/ r.item = item
          /\ \A j \in Items \ {i} : r.item[j] = item[j]
          /\ r.item[i] = [item[i] EXCEPT !.expanded = r.item[i].expanded]

\* C28 (step part): a keydown changes the focus or the aria-expanded of the
\* Item it was pressed on, not both, and nothing else of the tree.
C28_KeyStep ==
  lastEvent'.op = "keydown" =>
    /\ focus' = focus \/ item' = item
    /\ \A j \in Items \ {lastEvent'.item} : item'[j] = item[j]
    /\ item'[lastEvent'.item] =
         [item[lastEvent'.item] EXCEPT !.expanded = item'[lastEvent'.item].expanded]
    /\ UNCHANGED <<treeRole, group, trigger, listening>>

\* C28: each keydown on an Item changes the focus or the aria-expanded of
\* that Item, never both, never the aria-expanded of another Item, and never
\* a tabIndex, aria-current, aria-owns or role marker nor the id of a Group.
C28_KeyPressFrame == [](C28_KeyOutcome) /\ [][C28_KeyStep]_vars

\* C28 witness: Right was pressed on a collapsed Item with children, which is
\* now expanded and still holds focus.
C28_Witness ==
  /\ Constructed /\ KeyPressed("ArrowRight")
  /\ focus = lastEvent.item
  /\ isExpanded(item, focus) /\ Children(focus) # {}

====
